---- MODULE Spec2Model ----
(***************************************************************************)
(* A model of src/content.rs: the field extractors (get_title, get_slug,   *)
(* get_stream, get_date), the text normaliser (slugify), the duplicate     *)
(* checker (check_for_duplicate_slugs) and the GroupedContent index.       *)
(*                                                                         *)
(* Text is modelled by TLA+ strings, a character by a string of length 1.  *)
(* Option<T> is modelled by a sequence of length at most one.              *)
(*                                                                         *)
(* A TLA+ string holds the characters of Latin-1 only. The characters the  *)
(* code meets or produces beyond them are written with stand-ins:          *)
(*   - the combining marks NFD produces, by spacing marks: grave U+0300    *)
(*     by U+00AF, acute U+0301 by U+00B4, circumflex U+0302 by "^",        *)
(*     tilde U+0303 by "~", diaeresis U+0308 by U+00A8, ring U+030A by     *)
(*     U+00B0, cedilla U+0327 by U+00B8. Mark and stand-in are both        *)
(*     outside [a-z0-9], unchanged by lowercasing and by NFD, no digit and *)
(*     no white space.                                                     *)
(*   - a decimal digit outside ASCII (ARABIC-INDIC DIGIT TWO U+0662), by   *)
(*     the superscript two U+00B2: a digit for the regular expression \d,  *)
(*     no digit for chrono.                                                *)
(***************************************************************************)
EXTENDS Integers, Sequences, FiniteSets, TLC

VARIABLES
    kind,          \* GroupedContent.kind
    map,           \* GroupedContent.map: key -> Vec<Content>
    iterated,      \* Option of the vector GroupedContent::iter last returned
    frontmatter,   \* the parsed front-matter of the document at hand
    path,          \* the file path of the document at hand
    markdown,      \* the body of the document at hand
    text,          \* the argument of slugify
    contents,      \* the argument of check_for_duplicate_slugs
    title_ret,     \* Option of the (title, markdown) pair get_title returned
    slug_ret,      \* Option of the String get_slug returned
    date_ret,      \* Option of the Option<NaiveDateTime> get_date returned
    slugify_ret,   \* Option of the String slugify returned
    dup_ret,       \* Option of the Result check_for_duplicate_slugs returned
    exit_status    \* Option of the status the process ended with

vars == <<kind, map, iterated, frontmatter, path, markdown, text, contents,
          title_ret, slug_ret, date_ret, slugify_ret, dup_ret, exit_status>>

groupedVars == <<kind, map, iterated>>
inputVars == <<frontmatter, path, markdown, text, contents>>
retVars == <<title_ret, slug_ret, date_ret, slugify_ret, dup_ret, exit_status>>

----------------------------------------------------------------------------
(* Option and characters *)

None == <<>>
Some(x) == <<x>>
IsSome(o) == o # None
Unwrap(o) == o[1]

CharAt(s, i) == SubSeq(s, i, i)
StartsWith(s, p) == Len(s) >= Len(p) /\ SubSeq(s, 1, Len(p)) = p
Drop(s, n) == SubSeq(s, n + 1, Len(s))
HasChar(s, c) == \E i \in 1..Len(s) : CharAt(s, i) = c
IndexOf(s, c) == CHOOSE i \in 1..Len(s) : CharAt(s, i) = c

UpperAscii == "ABCDEFGHIJKLMNOPQRSTUVWXYZ"
LowerAscii == "abcdefghijklmnopqrstuvwxyz"
AsciiDigits == "0123456789"

----------------------------------------------------------------------------
(* frontmatter_gen: Frontmatter and Value *)

\* Value::String(s) and Value::Number(n); a number holds its decimal text.
StringValue(s) == [type |-> "String", val |-> s]
NumberValue(n) == [type |-> "Number", val |-> n]

\* Frontmatter::get
get(fm, key) == IF key \in DOMAIN fm THEN Some(fm[key]) ELSE None

\* Value::as_str: the text of a Value::String, None of any other value.
as_str(v) == IF v.type = "String" THEN Some(v.val) ELSE None

\* The escaping of Display for Value::String: a backslash before " and \.
RECURSIVE escape_str(_)
escape_str(s) ==
    IF s = "" THEN ""
    ELSE (IF Head(s) \in {"\"", "\\"} THEN "\\" \o Head(s) ELSE Head(s))
         \o escape_str(Tail(s))

\* Value::to_string (Display): a string is escaped and wrapped in quotes, as
\* test_get_description_from_frontmatter shows; a number is printed bare.
to_string(v) ==
    IF v.type = "String" THEN "\"" \o escape_str(v.val) \o "\"" ELSE v.val

----------------------------------------------------------------------------
(* slugify *)

\* The letters of Latin-1 that have a canonical decomposition, the base
\* letter of each and the stand-in of its combining mark.
Precomposed == "ÀÁÂÃÄÅÇÈÉÊËÌÍÎÏÑÒÓÔÕÖÙÚÛÜÝàáâãäåçèéêëìíîïñòóôõöùúûüýÿ"
BaseLetters == "AAAAAACEEEEIIIINOOOOOUUUUYaaaaaaceeeeiiiinooooouuuuyy"
CombiningMarks == "¯´^~¨°¸¯´^¨¯´^¨~¯´^~¨¯´^¨´¯´^~¨°¸¯´^¨¯´^¨~¯´^~¨¯´^¨´¨"

\* char::nfd: canonical decomposition of one character.
nfd_char(c) ==
    IF HasChar(Precomposed, c)
    THEN CharAt(BaseLetters, IndexOf(Precomposed, c))
            \o CharAt(CombiningMarks, IndexOf(Precomposed, c))
    ELSE c

RECURSIVE nfd(_)
nfd(s) == IF s = "" THEN "" ELSE nfd_char(Head(s)) \o nfd(Tail(s))

\* The uppercase letters of Latin-1 outside ASCII and their lowercase.
UpperLatin1 == "ÀÁÂÃÄÅÆÇÈÉÊËÌÍÎÏÐÑÒÓÔÕÖØÙÚÛÜÝÞ"
LowerLatin1 == "àáâãäåæçèéêëìíîïðñòóôõöøùúûüýþ"

\* char::to_lowercase
lowercase_char(c) ==
    CASE HasChar(UpperAscii, c) -> CharAt(LowerAscii, IndexOf(UpperAscii, c))
      [] HasChar(UpperLatin1, c) -> CharAt(LowerLatin1, IndexOf(UpperLatin1, c))
      [] OTHER -> c

RECURSIVE to_lowercase(_)
to_lowercase(s) ==
    IF s = "" THEN "" ELSE lowercase_char(Head(s)) \o to_lowercase(Tail(s))

\* The class [a-z0-9] of the regular expression of slugify.
IsSlugChar(c) == HasChar(LowerAscii, c) \/ HasChar(AsciiDigits, c)

\* Regex::replace_all(r"[^a-z0-9]+", "-"): every maximal run becomes one "-".
RECURSIVE replace_all(_, _)
replace_all(s, inRun) ==
    IF s = "" THEN ""
    ELSE IF IsSlugChar(Head(s)) THEN Head(s) \o replace_all(Tail(s), FALSE)
    ELSE (IF inRun THEN "" ELSE "-") \o replace_all(Tail(s), TRUE)

RECURSIVE trim_start_matches(_, _)
trim_start_matches(s, c) ==
    IF s # "" /\ Head(s) = c THEN trim_start_matches(Tail(s), c) ELSE s

RECURSIVE trim_end_matches(_, _)
trim_end_matches(s, c) ==
    IF s # "" /\ CharAt(s, Len(s)) = c
    THEN trim_end_matches(SubSeq(s, 1, Len(s) - 1), c)
    ELSE s

trim_matches(s, c) == trim_end_matches(trim_start_matches(s, c), c)

\* A slugify that trims the hyphens before it replaces the runs.
slugify_trim_first(t) ==
    replace_all(trim_matches(to_lowercase(nfd(t)), "-"), FALSE)

slugify(t) ==
    LET normalized == to_lowercase(nfd(t))
        slug == replace_all(normalized, FALSE)
    IN  trim_matches(slug, "-")

----------------------------------------------------------------------------
(* chrono: NaiveDate, NaiveDateTime and parse_from_str *)

\* A NaiveDateTime is <<year, month, day, hour, minute, second>>; the leap
\* second chrono keeps as 59 s + 1e9 ns is second 60, which keeps the order.
DateTime(y, mo, d, h, mi, sec) == <<y, mo, d, h, mi, sec>>

\* char::is_whitespace, the property White_Space, on the characters a string
\* of the model can hold: tab, line feed, vertical tab U+000B, form feed,
\* carriage return, space, NEXT LINE U+0085 and NO-BREAK SPACE U+00A0.
IsWhitespace(c) == c \in {"\t", "\n", "", "\f", "\r", " ", "", " "}

RECURSIVE trim_start(_)
trim_start(s) ==
    IF s # "" /\ IsWhitespace(Head(s)) THEN trim_start(Tail(s)) ELSE s

RECURSIVE trim_end(_)
trim_end(s) ==
    IF s # "" /\ IsWhitespace(CharAt(s, Len(s)))
    THEN trim_end(SubSeq(s, 1, Len(s) - 1))
    ELSE s

trim(s) == trim_end(trim_start(s))

IsAsciiDigit(c) == HasChar(AsciiDigits, c)
DigitValue(c) == IndexOf(AsciiDigits, c) - 1

\* The number of leading ASCII digits of s, at most max.
RECURSIVE DigitRun(_, _)
DigitRun(s, max) ==
    IF max > 0 /\ s # "" /\ IsAsciiDigit(Head(s))
    THEN 1 + DigitRun(Tail(s), max - 1)
    ELSE 0

RECURSIVE DecimalValue(_)
DecimalValue(s) ==
    IF s = "" THEN 0
    ELSE 10 * DecimalValue(SubSeq(s, 1, Len(s) - 1))
         + DigitValue(CharAt(s, Len(s)))

\* s without its leading zeros.
RECURSIVE StripZeros(_)
StripZeros(s) == IF s # "" /\ Head(s) = "0" THEN StripZeros(Tail(s)) ELSE s

\* The years of NaiveDate::MIN and NaiveDate::MAX.
MinYear == -262143
MaxYear == 262142

\* The proleptic Gregorian calendar; % is the remainder that is never
\* negative, so the rule holds for the years before 0 as well.
IsLeapYear(y) == y % 4 = 0 /\ (y % 100 # 0 \/ y % 400 = 0)

DaysInMonth(y, mo) ==
    CASE mo \in {4, 6, 9, 11} -> 30
      [] mo = 2 -> IF IsLeapYear(y) THEN 29 ELSE 28
      [] OTHER -> 31

\* NaiveDate::from_ymd_opt
IsValidDate(y, mo, d) ==
    /\ MinYear <= y /\ y <= MaxYear
    /\ mo \in 1..12
    /\ d \in 1..DaysInMonth(y, mo)

\* The widths format::parse gives the numeric items: at most four digits
\* for %Y, at most two for the others, at least one for all of them.
ItemWidth(item) == IF item = "Y" THEN 4 ELSE 2

\* i64::MAX, i32::MAX and the magnitude of i32::MIN, as numerals.
I64MaxNumeral == "9223372036854775807"
I32MaxNumeral == "2147483647"
I32MinNumeral == "2147483648"

\* a <= b for two numerals of one length.
RECURSIVE DigitsLeq(_, _)
DigitsLeq(a, b) ==
    IF a = "" THEN TRUE
    ELSE IF Head(a) = Head(b) THEN DigitsLeq(Tail(a), Tail(b))
    ELSE DigitValue(Head(a)) < DigitValue(Head(b))

\* a <= b for two numerals without leading zeros.
NumeralLeq(a, b) == Len(a) < Len(b) \/ (Len(a) = Len(b) /\ DigitsLeq(a, b))

\* The number a numeral is the magnitude of, below zero.
RECURSIVE NegativeValue(_)
NegativeValue(s) ==
    IF s = "" THEN 0
    ELSE 10 * NegativeValue(SubSeq(s, 1, Len(s) - 1))
         - DigitValue(CharAt(s, Len(s)))

\* The i64 of `digits` (leading zeros stripped, n digits read) with its sign,
\* and what is left of the input: None (Err) without a digit and for a number
\* above i64::MAX. A value that is an i32 is an integer of the model; a value
\* beyond i32, which no integer of TLC holds, is its numeral with its sign,
\* and the pair has "i64" as a third element.
number_value(digits, n, negative, rest) ==
    IF n = 0 \/ ~NumeralLeq(digits, I64MaxNumeral) THEN None
    ELSE IF NumeralLeq(digits, IF negative THEN I32MinNumeral ELSE I32MaxNumeral)
    THEN Some(<<IF negative THEN NegativeValue(digits)
                ELSE DecimalValue(digits), rest>>)
    ELSE Some(<<(IF negative THEN "-" ELSE "") \o digits, rest, "i64">>)

\* scan::number on t: the first n characters of t are its digits.
number_of(t, n, negative) ==
    number_value(StripZeros(SubSeq(t, 1, n)), n, negative, Drop(t, n))

\* A numeric item on t, the input behind its leading white space: %Y is a
\* signed field, a "+" or "-" before it is taken and then the number has
\* digits without a limit; without a sign, and for the other fields, the
\* number has at most ItemWidth digits.
signed_number(t, item) ==
    IF item = "Y" /\ t # "" /\ Head(t) \in {"+", "-"}
    THEN number_of(Tail(t), DigitRun(Tail(t), Len(t)), Head(t) = "-")
    ELSE number_of(t, DigitRun(t, ItemWidth(item)), FALSE)

\* One numeric item of format::parse on s: leading white space is skipped.
\* None (Err), or the pair of the value and what is left of s (see
\* number_value).
parse_number(s, item) == signed_number(trim_start(s), item)

\* format::parse over the items of a format string: a numeric item is read
\* by parse_number and set by its setter, a space item skips white space, a
\* literal has to be there. The result is None (Err) or the fields read, and what is left of
\* the input has to be empty (TooLong otherwise).
\* The setters of Parsed (set_year, set_month, set_day, set_hour, set_minute,
\* set_second) take the number `pair` read for the item when it is in the
\* range of the field: an i32 for the year.
in_range(item, pair) ==
    /\ Len(pair) = 2
    /\ CASE item = "Y" -> TRUE
         [] item = "m" -> pair[1] \in 1..12
         [] item = "d" -> pair[1] \in 1..31
         [] item = "H" -> pair[1] \in 0..23
         [] item = "M" -> pair[1] \in 0..59
         [] OTHER -> pair[1] \in 0..60

RECURSIVE parse_items(_, _, _)
RECURSIVE parse_after_number(_, _, _, _)
parse_after_number(num, item, items, fields) ==
    IF num = None THEN None
    ELSE IF ~in_range(item, Unwrap(num)) THEN None     \* Err(OutOfRange)
    ELSE parse_items(Unwrap(num)[2], items, fields @@ (item :> Unwrap(num)[1]))

parse_items(s, items, fields) ==
    IF items = <<>> THEN (IF s = "" THEN Some(fields) ELSE None)
    ELSE IF Head(items) \in {"Y", "m", "d", "H", "M", "S"}
         THEN parse_after_number(parse_number(s, Head(items)), Head(items),
                                 Tail(items), fields)
    ELSE IF Head(items) = " " THEN parse_items(trim_start(s), Tail(items), fields)
    ELSE IF s # "" /\ Head(s) = Head(items)
         THEN parse_items(Tail(s), Tail(items), fields)
         ELSE None

NoFields == [k \in {} |-> 0]

\* Parsed::to_naive_datetime_with_offset on the fields f, the second being
\* sec: it wants a valid date, an hour and a minute.
to_naive_datetime(f, sec) ==
    IF /\ IsValidDate(f["Y"], f["m"], f["d"])
       /\ f["H"] \in 0..23
       /\ f["M"] \in 0..59
       /\ sec \in 0..60
    THEN Some(DateTime(f["Y"], f["m"], f["d"], f["H"], f["M"], sec))
    ELSE None

\* The date and time of a parse: None for Err; a missing second is 0.
parsed_datetime(p) ==
    IF p = None THEN None
    ELSE to_naive_datetime(Unwrap(p),
                           IF "S" \in DOMAIN Unwrap(p) THEN Unwrap(p)["S"] ELSE 0)

\* NaiveDateTime::parse_from_str
datetime_parse_from_str(s, items) ==
    parsed_datetime(parse_items(s, items, NoFields))

\* Parsed::to_naive_date on the fields f, at midnight (and_hms_opt(0, 0, 0)).
to_naive_date_midnight(f) ==
    IF IsValidDate(f["Y"], f["m"], f["d"])
    THEN Some(DateTime(f["Y"], f["m"], f["d"], 0, 0, 0))
    ELSE None

\* The date of a parse at midnight: None for Err.
parsed_date_midnight(p) ==
    IF p = None THEN None ELSE to_naive_date_midnight(Unwrap(p))

\* NaiveDate::parse_from_str(s, "%Y-%m-%d") followed by and_hms_opt(0, 0, 0).
date_parse_from_str_midnight(s) ==
    parsed_date_midnight(parse_items(s, <<"Y", "-", "m", "-", "d">>, NoFields))

FormatSeconds == <<"Y", "-", "m", "-", "d", " ", "H", ":", "M", ":", "S">>
FormatMinutes == <<"Y", "-", "m", "-", "d", " ", "H", ":", "M">>

\* or_else: the first of two results that is Ok.
or_else(a, b) == IF a # None THEN a ELSE b

\* Result<NaiveDateTime, ParseError>: Some(date) is Ok, None is Err.
try_to_parse_date(input) ==
    or_else(or_else(datetime_parse_from_str(input, FormatSeconds),
                    datetime_parse_from_str(input, FormatMinutes)),
            date_parse_from_str_midnight(input))

\* The class \d of the regex crate: a decimal digit of any script (Nd).
IsDecimalDigit(c) == IsAsciiDigit(c) \/ c = "²"

\* The pattern \d{4}-\d{2}-\d{2} on a text of ten characters.
IsDatePattern(s) ==
    /\ Len(s) = 10
    /\ \A i \in {1, 2, 3, 4, 6, 7, 9, 10} : IsDecimalDigit(CharAt(s, i))
    /\ CharAt(s, 5) = "-"
    /\ CharAt(s, 8) = "-"

MatchStarts(s) == {i \in 1..(Len(s) - 9) : IsDatePattern(SubSeq(s, i, i + 9))}

Min(S) == CHOOSE x \in S : \A y \in S : x <= y

\* Regex::find: the leftmost match, None when there is none.
date_re_find(s) ==
    IF MatchStarts(s) = {} THEN None
    ELSE Some(SubSeq(s, Min(MatchStarts(s)), Min(MatchStarts(s)) + 9))

\* An extract_date_from_filename that looks for the first match that is a
\* calendar date instead of giving up on the first match.
extract_first_valid_date(p) ==
    LET valid == {i \in MatchStarts(p) :
                     date_parse_from_str_midnight(SubSeq(p, i, i + 9)) # None}
    IN  IF valid = {} THEN None
        ELSE date_parse_from_str_midnight(SubSeq(p, Min(valid), Min(valid) + 9))

extract_date_from_filename(p) ==
    LET m == date_re_find(p) IN
    IF m = None THEN None ELSE date_parse_from_str_midnight(Unwrap(m))

\* What a call ends with: a value returned, or the process ended.
Return(v) == <<"return", v>>
Exit(status) == <<"exit", status>>
Returned(outcome) == outcome[1] = "return"

\* A get_date that falls back to the file name when the date does not parse.
get_date_fallback_on_error(fm, p) ==
    LET v == get(fm, "date")
        input == IF v = None THEN None ELSE as_str(Unwrap(v))
    IN  IF input # None /\ try_to_parse_date(Unwrap(input)) # None
        THEN Return(try_to_parse_date(Unwrap(input)))
        ELSE Return(extract_date_from_filename(p))

\* A get_date that prefers the date of the file name.
get_date_filename_first(fm, p) ==
    LET v == get(fm, "date")
        input == IF v = None THEN None ELSE as_str(Unwrap(v))
    IN  IF extract_date_from_filename(p) # None
        THEN Return(extract_date_from_filename(p))
        ELSE IF input = None THEN Return(None)
        ELSE IF try_to_parse_date(Unwrap(input)) # None
             THEN Return(try_to_parse_date(Unwrap(input)))
             ELSE Exit(1)

get_date(fm, p) ==
    LET v == get(fm, "date")
        input == IF v = None THEN None ELSE as_str(Unwrap(v))
    IN  IF input # None
        THEN LET parsed == try_to_parse_date(Unwrap(input)) IN
             IF parsed # None THEN Return(parsed) ELSE Exit(1)
        ELSE Return(extract_date_from_filename(p))

----------------------------------------------------------------------------
(* get_title *)

\* The first position of character c in s, 0 when s does not hold it.
Find(s, c) == IF HasChar(s, c) THEN Min({i \in 1..Len(s) : CharAt(s, i) = c}) ELSE 0

\* str::lines: the text is cut after every "\n"; a line loses its "\n" and
\* then a "\r" before it; there is no empty line after a final "\n".
RECURSIVE lines(_)
lines(s) ==
    IF s = "" THEN <<>>
    ELSE LET n == Find(s, "\n") IN
         IF n = 0 THEN <<s>>
         ELSE LET line == SubSeq(s, 1, n - 1)
                  stripped == IF line # "" /\ CharAt(line, Len(line)) = "\r"
                              THEN SubSeq(line, 1, Len(line) - 1)
                              ELSE line
              IN  <<stripped>> \o lines(Drop(s, n))

\* [&str]::join
RECURSIVE join(_, _)
join(ls, sep) ==
    IF ls = <<>> THEN ""
    ELSE IF Len(ls) = 1 THEN ls[1]
    ELSE ls[1] \o sep \o join(Tail(ls), sep)

\* Iterator::find(|line| !line.is_empty()).unwrap_or("")
first_non_empty(ls) ==
    IF \E i \in 1..Len(ls) : ls[i] # ""
    THEN ls[Min({i \in 1..Len(ls) : ls[i] # ""})]
    ELSE ""

\* Iterator::skip_while with the closure of get_title.
RECURSIVE skip_title_lines(_, _)
skip_title_lines(ls, title) ==
    IF ls = <<>> THEN <<>>
    ELSE LET line == Head(ls) IN
         IF \/ trim(line) = ""
            \/ StartsWith(trim(line), "#")
                 /\ trim(trim_start_matches(line, "#")) = title
            \/ trim(line) = title
         THEN skip_title_lines(Tail(ls), title)
         ELSE ls

get_title(fm, md) ==
    LET t == get(fm, "title")
        title == IF t # None /\ Unwrap(t).type = "String"
                 THEN Unwrap(t).val
                 ELSE trim(trim_start_matches(first_non_empty(lines(md)), "#"))
    IN  <<title, join(skip_title_lines(lines(md), title), "\n")>>

----------------------------------------------------------------------------
(* get_stream and get_slug *)

\* A panic unwinds the main thread: the process ends with status 101.
Panic == Exit(101)

get_stream(fm) ==
    LET stream == get(fm, "stream") IN
    IF stream # None
    THEN IF as_str(Unwrap(stream)) = None
         THEN Panic     \* as_str().unwrap() on a value that is no string
         ELSE Return(Some(trim_matches(Unwrap(as_str(Unwrap(stream))), "\"")))
    ELSE Return(Some("index"))

\* Path::components, without the root: the path is cut at every "/"; empty
\* parts and "." parts are no components (a "." at the very start is one,
\* CurDir, which is no name either and is left out here as well).
RECURSIVE components(_)
components(p) ==
    IF p = "" THEN <<>>
    ELSE LET n == Find(p, "/")
             part == IF n = 0 THEN p ELSE SubSeq(p, 1, n - 1)
             rest == IF n = 0 THEN "" ELSE Drop(p, n)
         IN  (IF part \in {"", "."} THEN <<>> ELSE <<part>>) \o components(rest)

\* Path::file_name: the last component when it is a name, None when there is
\* none or when it is "..".
file_name(p) ==
    LET cs == components(p) IN
    IF cs = <<>> \/ cs[Len(cs)] = ".." THEN None ELSE Some(cs[Len(cs)])

\* The positions of the "." of a name.
dots_of(n) == {i \in 1..Len(n) : CharAt(n, i) = "."}

\* The name n cut before its "." at position lastDot.
cut_at(n, lastDot) == IF lastDot = 1 THEN Some(n) ELSE Some(SubSeq(n, 1, lastDot - 1))

\* The stem of an optional file name.
stem_of(name) ==
    IF name = None THEN None
    ELSE IF dots_of(Unwrap(name)) = {} THEN name
    ELSE cut_at(Unwrap(name),
                CHOOSE i \in dots_of(Unwrap(name)) :
                    \A j \in dots_of(Unwrap(name)) : j <= i)

\* Path::file_stem: the file name up to its last ".", the whole name when it
\* has no "." or only begins with one.
file_stem(p) == stem_of(file_name(p))

\* A replace that takes out the leftmost match of pat only (str::replacen
\* with a count of 1).
RECURSIVE remove_first(_, _)
remove_first(s, pat) ==
    IF s = "" \/ pat = "" THEN s
    ELSE IF StartsWith(s, pat) THEN Drop(s, Len(pat))
    ELSE Head(s) \o remove_first(Tail(s), pat)

\* str::replace(pat, ""): every match of pat, left to right, is taken out.
RECURSIVE remove_all(_, _)
remove_all(s, pat) ==
    IF s = "" \/ pat = "" THEN s
    ELSE IF StartsWith(s, pat) THEN remove_all(Drop(s, Len(pat)), pat)
    ELSE Head(s) \o remove_all(Tail(s), pat)

\* The decimal text of n in at least `width` digits, zero-padded.
RECURSIVE Padded(_, _)
Padded(n, width) ==
    IF n < 10 /\ width <= 1 THEN CharAt(AsciiDigits, n + 1)
    ELSE Padded(n \div 10, width - 1) \o CharAt(AsciiDigits, (n % 10) + 1)

\* Display of NaiveDate, date.date(): YYYY-MM-DD for the years 0 to 9999,
\* the year with its sign and at least four digits for the others.
format_date(dt) ==
    LET year == IF dt[1] \in 0..9999 THEN Padded(dt[1], 4)
                ELSE IF dt[1] < 0 THEN "-" \o Padded(0 - dt[1], 4)
                ELSE "+" \o Padded(dt[1], 4)
    IN  year \o "-" \o Padded(dt[2], 2) \o "-" \o Padded(dt[3], 2)

\* The branch of get_slug for the file, on the stem and the date of the
\* path: file_stem().unwrap(), and replace when there is a date.
file_slug(stem, date) ==
    IF stem = None THEN Panic
    ELSE IF date # None
    THEN Return(remove_all(Unwrap(stem), format_date(Unwrap(date)) \o "-"))
    ELSE Return(Unwrap(stem))

\* The slug before the stream is put in front of it.
base_slug(fm, p) ==
    IF get(fm, "slug") # None
    THEN Return(slugify(to_string(Unwrap(get(fm, "slug")))))
    ELSE IF get(fm, "title") # None
    THEN Return(slugify(to_string(Unwrap(get(fm, "title")))))
    ELSE file_slug(file_stem(p), extract_date_from_filename(p))

\* The end of get_slug, for the outcome of get_stream(frontmatter).unwrap()
\* and the outcome of the branches that give final_slug: a stream that is
\* not "index" is put before the slug.
prepend_stream(stream, final) ==
    IF ~Returned(stream) THEN stream
    ELSE IF ~Returned(final) THEN final
    ELSE IF Unwrap(stream[2]) # "index"
         THEN Return(Unwrap(stream[2]) \o "-" \o final[2])
         ELSE final

\* A get_slug in which the title is looked up before the slug.
get_slug_title_first(fm, p) ==
    prepend_stream(get_stream(fm),
                   IF get(fm, "title") # None
                   THEN Return(slugify(to_string(Unwrap(get(fm, "title")))))
                   ELSE base_slug(fm, p))

get_slug(fm, p) == prepend_stream(get_stream(fm), base_slug(fm, p))

----------------------------------------------------------------------------
(* Content, check_for_duplicate_slugs *)

\* A Content, by the fields this file reads: the slug and the date (the
\* title tells two records of one slug apart).
Content(title, slug, date) == [title |-> title, slug |-> slug, date |-> date]

\* Result<(), String>
Ok == <<"Ok">>
Err(e) == <<"Err", e>>

\* The loop of check_for_duplicate_slugs from position i on: HashSet::insert
\* is false for a slug that is in the set.
RECURSIVE scan_slugs(_, _, _)
scan_slugs(cs, i, seen) ==
    IF i > Len(cs) THEN Ok
    ELSE IF cs[i].slug \in seen THEN Err(cs[i].slug)
    ELSE scan_slugs(cs, i + 1, seen \cup {cs[i].slug})

\* A checker that compares a slug with the one right before it only.
check_adjacent_slugs(cs) ==
    IF \E i \in 2..Len(cs) : cs[i].slug = cs[i - 1].slug
    THEN Err(cs[Min({i \in 2..Len(cs) : cs[i].slug = cs[i - 1].slug})].slug)
    ELSE Ok

check_for_duplicate_slugs(cs) == scan_slugs(cs, 1, {})

----------------------------------------------------------------------------
(* GroupedContent *)

Kinds == {"Tag", "Archive", "Author", "Stream"}

\* Ord for tuples of integers of one length: the first difference decides.
RECURSIVE TupleLess(_, _)
TupleLess(a, b) ==
    IF a = <<>> THEN FALSE
    ELSE Head(a) < Head(b) \/ (Head(a) = Head(b) /\ TupleLess(Tail(a), Tail(b)))

\* Ord for Option<NaiveDateTime>: None is less than every Some.
DateLess(a, b) ==
    IF b = None THEN FALSE
    ELSE IF a = None THEN TRUE
    ELSE TupleLess(Unwrap(a), Unwrap(b))

\* The characters of the keys in the order of their UTF-8 bytes.
ByteOrder ==
    " !\"#-./0123456789ABCDEFGHIJKLMNOPQRSTUVWXYZ_abcdefghijklmnopqrstuvwxyz´Éé"

ByteRank ==
    [c \in {CharAt(ByteOrder, i) : i \in 1..Len(ByteOrder)} |-> IndexOf(ByteOrder, c)]

\* Ord for String: byte by byte, a proper prefix is less.
RECURSIVE StringLess(_, _)
StringLess(a, b) ==
    IF b = "" THEN FALSE
    ELSE IF a = "" THEN TRUE
    ELSE IF Head(a) = Head(b) THEN StringLess(Tail(a), Tail(b))
    ELSE ByteRank[Head(a)] < ByteRank[Head(b)]

\* The elements of a vector.
Elems(v) == {v[i] : i \in 1..Len(v)}

\* slice::sort_by, a stable sort. The comparator closure |a, b| ... is the
\* table `less` over the pairs of elements: less[<<a, b>>] is
\* `compare(a, b) == Less`.
\* The element of rank r is the one with r - 1 elements ahead of it: those
\* that compare less, and those that compare equal and stood before it.
sort_by(v, less) ==
    LET ahead(i) == {j \in 1..Len(v) :
                        \/ less[<<v[j], v[i]>>]
                        \/ ~less[<<v[i], v[j]>>] /\ j < i}
    IN  [r \in 1..Len(v) |->
            v[CHOOSE i \in 1..Len(v) : Cardinality(ahead(i)) = r - 1]]

\* contents.sort_by(|a, b| a.date.cmp(&b.date)): the oldest first.
sort_contents_ascending(cs) == sort_by(cs, [p \in Elems(cs) \X Elems(cs) |-> DateLess(p[1].date, p[2].date)])

\* contents.clone() and contents.sort_by(|a, b| b.date.cmp(&a.date))
sort_contents(cs) == sort_by(cs, [p \in Elems(cs) \X Elems(cs) |-> DateLess(p[2].date, p[1].date)])

\* The vector the loop over &self.map builds, the map being visited in
\* `order`: a pair of the key and the sorted clone of its bucket.
collect(m, order) ==
    [i \in 1..Len(order) |-> <<order[i], sort_contents(m[order[i]])>>]

\* An iter that sorts every kind by the key, ascending.
iter_by_key(k, m, order) ==
    LET vec == collect(m, order)
    IN  sort_by(vec, [p \in Elems(vec) \X Elems(vec) |-> StringLess(p[1][1], p[2][1])])

\* GroupedContent::iter, for the order in which the HashMap yields its keys.
iter(k, m, order) ==
    LET vec == collect(m, order) IN
    CASE k = "Tag" -> sort_by(vec, [p \in Elems(vec) \X Elems(vec) |-> Len(p[2][2]) < Len(p[1][2])])
      [] k = "Archive" -> sort_by(vec, [p \in Elems(vec) \X Elems(vec) |-> StringLess(p[2][1], p[1][1])])
      [] OTHER -> sort_by(vec, [p \in Elems(vec) \X Elems(vec) |-> StringLess(p[1][1], p[2][1])])

----------------------------------------------------------------------------
(* The texts slugify is applied to *)

MaxTextLen == 3

TextAlphabet == {"a", "Z", "7", "-", " ", "_", "é", "É", "´", "Ñ"}

RECURSIVE TextsUpTo(_)
TextsUpTo(n) ==
    IF n = 0 THEN {""}
    ELSE LET shorter == TextsUpTo(n - 1)
         IN  shorter \cup {t \o c : t \in shorter, c \in TextAlphabet}

Texts == TextsUpTo(MaxTextLen)

----------------------------------------------------------------------------
(* Slugify specification: slugify applied to a text, and to its own result *)

\* The parts of the state a specification does not use stay as constructed.
GroupedIdle == kind = "Tag" /\ map = [k \in {} |-> <<>>] /\ iterated = None

DocumentIdle == frontmatter = [k \in {} |-> <<>>] /\ path = "" /\ markdown = ""

RetsIdle ==
    /\ title_ret = None
    /\ slug_ret = None
    /\ date_ret = None
    /\ slugify_ret = None
    /\ dup_ret = None
    /\ exit_status = None

SlugifyInit ==
    /\ text \in Texts
    /\ contents = <<>>
    /\ GroupedIdle
    /\ DocumentIdle
    /\ RetsIdle

Slugify ==
    /\ slugify_ret = None
    /\ slugify_ret' = Some(slugify(text))
    /\ UNCHANGED <<groupedVars, inputVars, title_ret, slug_ret, date_ret,
                   dup_ret, exit_status>>

SlugifyAgain ==
    /\ slugify_ret # None
    /\ text' = Unwrap(slugify_ret)
    /\ slugify_ret' = Some(slugify(text'))
    /\ UNCHANGED <<groupedVars, frontmatter, path, markdown, contents,
                   title_ret, slug_ret, date_ret, dup_ret, exit_status>>

SlugifyNext == Slugify \/ SlugifyAgain

SlugifySpec == SlugifyInit /\ [][SlugifyNext]_vars

\* C8: slugify is idempotent: applying slugify to a string slugify returned
\* gives that string back.
SlugifyIdempotent ==
    slugify_ret # None =>
        slugify(Unwrap(slugify_ret)) = Unwrap(slugify_ret)

\* slugify has rewritten an accented, mixed text into a non-empty slug.
SlugifyIdempotentWitness ==
    /\ text = "É Z"
    /\ slugify_ret = Some("e-z")

----------------------------------------------------------------------------
(* Date specification: get_date on a front-matter and a file path *)

\* A front-matter from its optional entries.
MakeFrontmatter(o) ==
    [k \in {key \in DOMAIN o : o[key] # None} |-> Unwrap(o[k])]

DateDays ==
    {y \o "-" \o mo \o "-" \o d :
        y \in {"2023", "2024"}, mo \in {"01", "02", "13"}, d \in {"01", "29", "31"}}

DateTimes == {"", " 15:40", " 15:40:56", " 24:00", " 15:61", "T15:40:56"}

DateStrings ==
    {d \o t : d \in DateDays, t \in DateTimes}
        \cup {"", "tomorrow", "01/02/2024", "2024-1-5", "2024-01-01 9:05",
              "+2024-01-01", "-2024-02-29 15:40", "+12345-01-01 10:00:00",
              "+-2024-01-01", "20240-01-01", "\f2024-01-01",
              "2024-01-01\f15:40", "2024-01-01", "+2147483648-01-01",
              "-2147483648-01-01", "+9223372036854775808-01-01",
              "+0262142-12-31", "+262143-01-01"}

DateValues ==
    {None, Some(NumberValue("20240101"))}
        \cup {Some(StringValue(d)) : d \in DateStrings}

DatePaths ==
    {"", "myfile.md", "2024-01-01-myfile.md", "content/2023-12-31-post.md",
     "2024-01-01-2025-02-02-myfile.md", "2024-01-01-15-30-myfile.md",
     "2023-02-29-myfile.md", "2024-13-01-and-2024-01-01.md",
     "posts/2024-1-5-short.md", "x20240-02-29.md", "not-a-date-myfile.md",
     "²²²²-²²-²²-2024-01-01-x.md"}

DateInit ==
    /\ frontmatter \in {MakeFrontmatter([date |-> d]) : d \in DateValues}
    /\ path \in DatePaths
    /\ markdown = ""
    /\ text = ""
    /\ contents = <<>>
    /\ GroupedIdle
    /\ RetsIdle

\* The end of a call of get_date: the date is returned, or the process ends.
EndGetDate(outcome) ==
    IF Returned(outcome)
    THEN date_ret' = Some(outcome[2]) /\ UNCHANGED exit_status
    ELSE exit_status' = Some(outcome[2]) /\ UNCHANGED date_ret

\* A call of get_date by the running process: it returns, or the process
\* exits with status 1 and nothing runs after it.
GetDate ==
    /\ exit_status = None
    /\ date_ret = None
    /\ EndGetDate(get_date(frontmatter, path))
    /\ UNCHANGED <<groupedVars, inputVars, title_ret, slug_ret, slugify_ret,
                   dup_ret>>

\* A call of get_title by the running process.
GetTitle ==
    /\ exit_status = None
    /\ title_ret = None
    /\ title_ret' = Some(get_title(frontmatter, markdown))
    /\ UNCHANGED <<groupedVars, inputVars, slug_ret, date_ret, slugify_ret,
                   dup_ret, exit_status>>

\* The end of a call of get_slug: the slug is returned, or the process ends.
EndGetSlug(outcome) ==
    IF Returned(outcome)
    THEN slug_ret' = Some(outcome[2]) /\ UNCHANGED exit_status
    ELSE exit_status' = Some(outcome[2]) /\ UNCHANGED slug_ret

\* A call of get_slug by the running process: it returns, or it panics.
GetSlug ==
    /\ exit_status = None
    /\ slug_ret = None
    /\ EndGetSlug(get_slug(frontmatter, path))
    /\ UNCHANGED <<groupedVars, inputVars, title_ret, date_ret, slugify_ret,
                   dup_ret>>

\* The extractors run on the document, in any order, while the process lives.
DateNext == GetDate \/ GetTitle \/ GetSlug

DateSpec == DateInit /\ [][DateNext]_vars

\* The date string of the front-matter, None when there is no `date` or its
\* value is no string.
DateInput ==
    IF "date" \in DOMAIN frontmatter THEN as_str(frontmatter["date"]) ELSE None

\* get_date has been called: it returned or ended the process (status 1).
GetDateCalled == date_ret # None \/ exit_status = Some(1)

Digits(s, from, to) == DecimalValue(SubSeq(s, from, to))

AllDigits(s, positions) == \A i \in positions : IsAsciiDigit(CharAt(s, i))

\* s begins with YYYY-MM-DD in ASCII digits, by position.
IsDayShape(s) ==
    /\ Len(s) >= 10
    /\ AllDigits(s, {1, 2, 3, 4, 6, 7, 9, 10})
    /\ CharAt(s, 5) = "-" /\ CharAt(s, 8) = "-"

\* The timestamp a text in one of the three formats denotes, read by
\* position; None when the text has none of the three shapes or names no
\* calendar date or time of day.
Timestamp(s) ==
    LET y == Digits(s, 1, 4)
        mo == Digits(s, 6, 7)
        d == Digits(s, 9, 10)
        hasMinutes ==
            /\ Len(s) >= 16
            /\ CharAt(s, 11) = " " /\ CharAt(s, 14) = ":"
            /\ AllDigits(s, {12, 13, 15, 16})
        hasSeconds ==
            /\ Len(s) = 19 /\ hasMinutes
            /\ CharAt(s, 17) = ":" /\ AllDigits(s, {18, 19})
        h == Digits(s, 12, 13)
        mi == Digits(s, 15, 16)
        sec == Digits(s, 18, 19)
    IN  IF ~(IsDayShape(s) /\ IsValidDate(y, mo, d)) THEN None
        ELSE IF Len(s) = 10 THEN Some(DateTime(y, mo, d, 0, 0, 0))
        ELSE IF Len(s) = 16 /\ hasMinutes /\ h <= 23 /\ mi <= 59
             THEN Some(DateTime(y, mo, d, h, mi, 0))
        ELSE IF hasSeconds /\ h <= 23 /\ mi <= 59 /\ sec <= 60
             THEN Some(DateTime(y, mo, d, h, mi, sec))
        ELSE None

\* C4: when the `date` of the front-matter is a string valid under one of the
\* three formats, get_date returns the timestamp that string denotes (midnight
\* for a bare day), whatever the path holds, and does not end the process.
FrontmatterDateWins ==
    (GetDateCalled /\ DateInput # None /\ Timestamp(Unwrap(DateInput)) # None)
        => /\ exit_status # Some(1)
           /\ date_ret = Some(Timestamp(Unwrap(DateInput)))

\* get_date returned the date and time of the front-matter for a file whose
\* name holds another, valid date.
FrontmatterDateWinsWitness ==
    /\ DateInput = Some("2024-02-29 15:40:56")
    /\ path = "content/2023-12-31-post.md"
    /\ date_ret = Some(Some(DateTime(2024, 2, 29, 15, 40, 56)))
\* s begins with a text of the form dddd-dd-dd, a d being a decimal digit of
\* any script.
IsDayText(s) ==
    /\ Len(s) >= 10
    /\ \A i \in {1, 2, 3, 4, 6, 7, 9, 10} : IsDecimalDigit(CharAt(s, i))
    /\ CharAt(s, 5) = "-" /\ CharAt(s, 8) = "-"

\* The first text of the path that has the form dddd-dd-dd, None without one.
FirstDateText ==
    IF \E i \in 1..Len(path) : IsDayText(Drop(path, i - 1))
    THEN LET i == Min({j \in 1..Len(path) : IsDayText(Drop(path, j - 1))})
         IN  Some(SubSeq(path, i, i + 9))
    ELSE None

\* C5 (as amended): without a `date` key, get_date returns midnight of the
\* first dddd-dd-dd text of the path when that text names a calendar date,
\* and nothing, without an error, when the path has no such text or the first
\* one names no calendar date (a later one is not looked at).
FilenameDateFallback ==
    (GetDateCalled /\ "date" \notin DOMAIN frontmatter)
        => /\ exit_status # Some(1)
           /\ date_ret = Some(IF FirstDateText = None THEN None
                              ELSE Timestamp(Unwrap(FirstDateText)))

\* get_date returned nothing for a path whose first date text is no calendar
\* date although a later one is.
FilenameDateFallbackWitness ==
    /\ "date" \notin DOMAIN frontmatter
    /\ path = "2024-13-01-and-2024-01-01.md"
    /\ date_ret = Some(None)

\* C5 (as claimed): without a `date` key, get_date returns the first
\* dddd-dd-dd text of the path as a date at midnight, and nothing only when
\* the path has no such text.
FilenameDateAlways ==
    (GetDateCalled /\ "date" \notin DOMAIN frontmatter)
        => /\ exit_status # Some(1)
           /\ FirstDateText = None => date_ret = Some(None)
           /\ FirstDateText # None =>
                /\ date_ret # Some(None)
                /\ date_ret =
                     Some(Some(DateTime(Digits(Unwrap(FirstDateText), 1, 4),
                                        Digits(Unwrap(FirstDateText), 6, 7),
                                        Digits(Unwrap(FirstDateText), 9, 10),
                                        0, 0, 0)))

\* The `date` of the front-matter is a string none of the formats accepts.
DateInputInvalid ==
    DateInput # None /\ try_to_parse_date(Unwrap(DateInput)) = None

\* C10, the state part: once get_date has been called on a front-matter
\* whose `date` string matches none of the formats, the process has ended
\* with status 1 and get_date has returned no date, whatever the path holds.
InvalidDateExits ==
    DateInputInvalid =>
        /\ date_ret = None
        /\ GetDateCalled => exit_status = Some(1)

\* C10: a `date` string that matches none of the formats makes get_date end
\* the process with status 1 instead of returning a date or falling back to
\* the file name, and no step is taken by a process that has ended.
InvalidDateTerminates ==
    /\ []InvalidDateExits
    /\ [][exit_status = None]_vars

\* The process ended in get_date although the path holds a valid date, after
\* the title of the document had been extracted.
InvalidDateTerminatesWitness ==
    /\ DateInput = Some("2024-01-01T15:40:56")
    /\ path = "2024-01-01-myfile.md"
    /\ title_ret # None
    /\ date_ret = None
    /\ exit_status = Some(1)
----------------------------------------------------------------------------
(* Slug specification: get_slug on a front-matter and a file path *)

SlugValues ==
    {None, Some(StringValue("test-slug")), Some(StringValue("My \"Slug\"!")),
     Some(NumberValue("42"))}

TitleValues ==
    {None, Some(StringValue("Hello World")), Some(StringValue("Téxt \\ É")),
     Some(StringValue(""))}

StreamValues ==
    {None, Some(StringValue("index")), Some(StringValue("notes")),
     Some(StringValue("\"index\"")), Some(StringValue("My Notes")),
     Some(NumberValue("7"))}

SlugPaths ==
    {"", "myfile.md", "2024-01-01-myfile.md", "My File.md",
     "posts/2024-01-01-2024-01-01-x.md", "2023-12-31/2024-01-01-x.md",
     "2024-01-01.md", "2023-02-29-leap.md", "content/.hidden",
     "docs/2024-01-01-v1.2.md", "2024-01-01-a-2024-01-01-b.md",
     "2024-2024-01-01-01-01-x.md", "post-2024-01-01.md",
     "²²²²-²²-²²-2024-01-01-x.md", ".", "a/.", "posts/./2024-01-01-b.md/"}

SlugInit ==
    /\ frontmatter \in
         {MakeFrontmatter([slug |-> sl, title |-> ti, stream |-> st]) :
             sl \in SlugValues, ti \in TitleValues, st \in StreamValues}
    /\ path \in SlugPaths
    /\ markdown = ""
    /\ text = ""
    /\ contents = <<>>
    /\ GroupedIdle
    /\ RetsIdle

SlugNext == GetSlug

SlugSpec == SlugInit /\ [][SlugNext]_vars

\* The stream of the document: the `stream` of the front-matter without the
\* quotes around it, "index" without a `stream`.
ResolvedStream ==
    IF "stream" \in DOMAIN frontmatter
    THEN trim_matches(frontmatter["stream"].val, "\"")
    ELSE "index"

\* The parts of the path between its "/", as pairs of their first and last
\* position, that are a name: not empty and not ".".
NameParts ==
    {ij \in (1..Len(path)) \X (1..Len(path)) :
        /\ ij[1] <= ij[2]
        /\ ij[1] = 1 \/ CharAt(path, ij[1] - 1) = "/"
        /\ ij[2] = Len(path) \/ CharAt(path, ij[2] + 1) = "/"
        /\ ~HasChar(SubSeq(path, ij[1], ij[2]), "/")
        /\ SubSeq(path, ij[1], ij[2]) # "."}

\* The base name of the file: the last name of the path, without the
\* extension, which is what follows the last "." behind its first character.
BaseName ==
    LET last == CHOOSE ij \in NameParts : \A kl \in NameParts : kl[1] <= ij[1]
        name == IF NameParts = {} THEN "" ELSE SubSeq(path, last[1], last[2])
        dots == {i \in 2..Len(name) : CharAt(name, i) = "."}
    IN  IF dots = {} THEN name
        ELSE SubSeq(name, 1, Min({i \in dots : \A j \in dots : j <= i}) - 1)

\* The date found by the scan of the path with the hyphen after it, as text:
\* the first dddd-dd-dd text of the path when it is a calendar date.
DateHyphen ==
    IF FirstDateText # None /\ Timestamp(Unwrap(FirstDateText)) # None
    THEN Some(Unwrap(FirstDateText) \o "-")
    ELSE None

\* The positions of s at which pat stands.
Occurrences(s, pat) ==
    {i \in 1..(Len(s) - Len(pat) + 1) : SubSeq(s, i, i + Len(pat) - 1) = pat}

\* The positions the texts of length len that start at `starts` cover.
Covered(starts, len) == {i + k : i \in starts, k \in 0..(len - 1)}

\* s from position i on, without the characters at the positions in cut.
RECURSIVE KeepFrom(_, _, _)
KeepFrom(s, cut, i) ==
    IF i > Len(s) THEN ""
    ELSE (IF i \in cut THEN "" ELSE CharAt(s, i)) \o KeepFrom(s, cut, i + 1)

\* The base name with every occurrence of the date and its hyphen cut out.
\* Two occurrences never overlap: no end of dddd-dd-dd- is a start of it.
BaseNameEveryDateCut ==
    IF DateHyphen = None THEN BaseName
    ELSE LET pat == Unwrap(DateHyphen)
         IN  KeepFrom(BaseName, Covered(Occurrences(BaseName, pat), Len(pat)), 1)

\* The slug the precedence slug, title, file gives, with `fileSlug` for the
\* file, behind the stream when that is not "index".
SlugByPrecedence(fileSlug) ==
    LET base == IF "slug" \in DOMAIN frontmatter
                THEN slugify(frontmatter["slug"].val)
                ELSE IF "title" \in DOMAIN frontmatter
                THEN slugify(frontmatter["title"].val)
                ELSE fileSlug
    IN  IF ResolvedStream = "index" THEN base
        ELSE ResolvedStream \o "-" \o base

\* C2 (as amended): the slug get_slug returns is slugify of the `slug` of
\* the front-matter when there is one, else slugify of its `title`, else the
\* base name of the file with every occurrence of the date found by the scan
\* of the path, and the hyphen after it, cut out (the base name as it is when
\* the scan finds no date or that text does not stand in the base name);
\* unchanged for the stream "index", behind "{stream}-" for any other stream.
SlugPrecedence ==
    slug_ret # None => Unwrap(slug_ret) = SlugByPrecedence(BaseNameEveryDateCut)

\* get_slug took the slug of a front-matter that has a title too and put the
\* stream in front of it.
SlugPrecedenceWitness ==
    /\ frontmatter = MakeFrontmatter([slug |-> Some(StringValue("My \"Slug\"!")),
                                      title |-> Some(StringValue("Hello World")),
                                      stream |-> Some(StringValue("notes"))])
    /\ slug_ret = Some("notes-my-slug")

\* C2 (as claimed): as above, with the base name of the file as it is for a
\* front-matter with neither `slug` nor `title`.
SlugPrecedencePlainBaseName ==
    slug_ret # None => Unwrap(slug_ret) = SlugByPrecedence(BaseName)

\* Only lowercase ASCII letters, digits and hyphens.
IsUrlSafe(s) == \A i \in 1..Len(s) : IsSlugChar(CharAt(s, i)) \/ CharAt(s, i) = "-"

\* C3: the slug get_slug returns holds only lowercase ASCII letters, digits
\* and hyphens.
SlugUrlSafe == slug_ret # None => IsUrlSafe(Unwrap(slug_ret))

\* The front-matter has neither `slug` nor `title`.
FileOnly == "slug" \notin DOMAIN frontmatter /\ "title" \notin DOMAIN frontmatter

\* The base name with the first occurrence of the date and its hyphen cut
\* out, later occurrences left where they are.
BaseNameFirstDateCut ==
    IF DateHyphen = None THEN BaseName
    ELSE LET pat == Unwrap(DateHyphen)
             occ == Occurrences(BaseName, pat)
             first == IF occ = {} THEN {} ELSE {Min(occ)}
         IN  KeepFrom(BaseName, Covered(first, Len(pat)), 1)

\* C11 (as amended): for a front-matter with neither `slug` nor `title`, the
\* base slug of get_slug is the base name of the file from which every
\* occurrence of the date found by the scan of the path, with the hyphen
\* after it, is deleted in one pass; a date without a hyphen after it stays,
\* and a base name without the date is returned as it is.
FileSlugCutsEveryDate ==
    FileOnly /\ slug_ret # None =>
        Unwrap(slug_ret) = SlugByPrecedence(BaseNameEveryDateCut)

\* get_slug took both occurrences of the date out of a base name that holds
\* it twice.
FileSlugCutsEveryDateWitness ==
    /\ frontmatter = MakeFrontmatter([slug |-> None, title |-> None,
                                      stream |-> None])
    /\ path = "2024-01-01-a-2024-01-01-b.md"
    /\ slug_ret = Some("a-b")

\* C11 (as claimed): as above, with the first occurrence of the date and its
\* hyphen deleted only, later occurrences staying in the slug.
FileSlugCutsFirstDate ==
    FileOnly /\ slug_ret # None =>
        Unwrap(slug_ret) = SlugByPrecedence(BaseNameFirstDateCut)
----------------------------------------------------------------------------
(* Title specification: get_title on a front-matter and a document body *)

MaxLines == 3

BodyLines ==
    {"", "  ", "# Title", "Title", "## Title ", " # Title", "# #Title",
     "#", "body", "#\f Title", "# Title"}

\* The bodies of at most n lines, a final line with or without its "\n".
RECURSIVE BodiesUpTo(_)
BodiesUpTo(n) ==
    IF n = 0 THEN {""}
    ELSE LET shorter == BodiesUpTo(n - 1)
         IN  shorter \cup BodyLines
                 \cup {b \o "\n" \o l : b \in shorter, l \in BodyLines}

TitleInit ==
    /\ frontmatter \in
         {MakeFrontmatter([title |-> ti]) :
             ti \in {None, Some(StringValue("Title")), Some(NumberValue("7"))}}
    /\ markdown \in BodiesUpTo(MaxLines)
    /\ path = ""
    /\ text = ""
    /\ contents = <<>>
    /\ GroupedIdle
    /\ RetsIdle

TitleNext == GetTitle

TitleSpec == TitleInit /\ [][TitleNext]_vars

\* t is s without the white space around it.
IsTrimmed(s, t) ==
    /\ t = "" \/ (~IsWhitespace(CharAt(t, 1)) /\ ~IsWhitespace(CharAt(t, Len(t))))
    /\ \E a \in 0..Len(s) :
          /\ a + Len(t) <= Len(s)
          /\ SubSeq(s, a + 1, a + Len(t)) = t
          /\ \A i \in (1..a) \cup ((a + Len(t) + 1)..Len(s)) :
                IsWhitespace(CharAt(s, i))

\* t is the line without its leading `#` markers and, after that, without
\* the white space around what is left.
IsTitleOf(line, t) ==
    \E k \in 0..Len(line) :
        /\ \A i \in 1..k : CharAt(line, i) = "#"
        /\ k = Len(line) \/ CharAt(line, k + 1) # "#"
        /\ IsTrimmed(Drop(line, k), t)

\* A line get_title takes out of the head of the body: a blank line, or a
\* line that is the title once stripped of its markers or of its white space.
IsTitleLine(line, t) ==
    \/ \A i \in 1..Len(line) : IsWhitespace(CharAt(line, i))
    \/ IsTitleOf(line, t)
    \/ IsTrimmed(line, t)

\* The title and the body get_title returned are those of the document: the
\* title is the first non-empty line stripped ("" without such a line), and
\* the body is the lines from the first one that is no title line, each as it
\* was, so that it no longer starts with the line of the title.
TitleAndBodyOfDocument ==
    LET title == Unwrap(title_ret)[1]
        body == Unwrap(title_ret)[2]
        ls == lines(markdown)
        filled == {i \in 1..Len(ls) : ls[i] # ""}
    IN  /\ IF filled = {} THEN title = ""
           ELSE IsTitleOf(ls[Min(filled)], title)
        /\ \E n \in 0..Len(ls) :
              /\ \A i \in 1..n : IsTitleLine(ls[i], title)
              /\ n = Len(ls) \/ ~IsTitleLine(ls[n + 1], title)
              /\ filled # {} => n >= Min(filled)
              /\ body = join(SubSeq(ls, n + 1, Len(ls)), "\n")

\* What get_title does keep of C9: the title and the body are those of the
\* document, the title being stripped of its markers first and of its white
\* space after that.
TitleFromBody ==
    (title_ret # None /\ "title" \notin DOMAIN frontmatter)
        => TitleAndBodyOfDocument

\* C9: without a `title` in the front-matter, get_title returns as title the
\* first non-empty line of the body without its leading `#` markers and the
\* white space around it, so that the title neither starts with `#` nor has
\* white space around it ("" without such a line), and as body the lines from
\* the first one that is neither blank nor a title line on, unchanged and in
\* order.
TitleFromBodyNoHash ==
    (title_ret # None /\ "title" \notin DOMAIN frontmatter)
        => /\ TitleAndBodyOfDocument
           /\ ~StartsWith(Unwrap(title_ret)[1], "#")
----------------------------------------------------------------------------
(* Duplicate specification: check_for_duplicate_slugs on a list of contents *)

MaxDocuments == 4

DocumentPool ==
    {Content(t, sl, None) :
        t \in {"First", "Second"}, sl \in {"post", "about", "notes-post"}}

RECURSIVE ListsUpTo(_, _)
ListsUpTo(S, n) ==
    IF n = 0 THEN {<<>>}
    ELSE LET shorter == ListsUpTo(S, n - 1)
         IN  shorter \cup {Append(l, x) : l \in shorter, x \in S}

DuplicateInit ==
    /\ contents \in ListsUpTo(DocumentPool, MaxDocuments)
    /\ text = ""
    /\ GroupedIdle
    /\ DocumentIdle
    /\ RetsIdle

CheckForDuplicateSlugs ==
    /\ dup_ret = None
    /\ dup_ret' = Some(check_for_duplicate_slugs(contents))
    /\ UNCHANGED <<groupedVars, inputVars, title_ret, slug_ret, date_ret,
                   slugify_ret, exit_status>>

DuplicateNext == CheckForDuplicateSlugs

DuplicateSpec == DuplicateInit /\ [][DuplicateNext]_vars

\* The positions whose slug is the slug of an earlier position.
RepeatPositions ==
    {j \in 1..Len(contents) : \E i \in 1..(j - 1) : contents[i].slug = contents[j].slug}

\* C1: check_for_duplicate_slugs succeeds exactly when the slugs are pairwise
\* distinct (the empty list included), and fails otherwise with the slug of
\* the earliest position that repeats the slug of an earlier one.
FirstDuplicateReported ==
    dup_ret # None =>
        IF RepeatPositions = {} THEN dup_ret = Some(Ok)
        ELSE dup_ret = Some(Err(contents[Min(RepeatPositions)].slug))

\* The checker reported the slug repeated first, not the later repeat of the
\* slug the list starts with.
FirstDuplicateReportedWitness ==
    /\ Len(contents) = 4
    /\ contents[1].slug = "post" /\ contents[2].slug = "about"
    /\ contents[3].slug = "about" /\ contents[4].slug = "post"
    /\ dup_ret = Some(Err("about"))

----------------------------------------------------------------------------
(* The GroupedContent specification: a map is built and iterated *)

MaxGrouped == 3

GroupKeys == {"2023", "2024", "rust"}

Midnight == DateTime(2024, 1, 1, 0, 0, 0)

GroupedPool ==
    {Content("A", "a", Some(Midnight)), Content("B", "b", Some(Midnight)),
     Content("C", "c", Some(DateTime(2023, 12, 31, 15, 40, 56))),
     Content("N", "n", None), Content("M", "m", None)}

\* The number of contents in the buckets of the keys K.
RECURSIVE Stored(_, _)
Stored(m, K) ==
    IF K = {} THEN 0
    ELSE LET k == CHOOSE x \in K : TRUE IN Len(m[k]) + Stored(m, K \ {k})

\* The orders in which a HashMap may yield the keys K.
KeyOrders(K) ==
    {o \in [1..Cardinality(K) -> K] : \A i, j \in DOMAIN o : i # j => o[i] # o[j]}

\* GroupedContent::new(kind)
Init ==
    /\ kind \in Kinds
    /\ map = [k \in {} |-> <<>>]
    /\ iterated = None
    /\ text = ""
    /\ contents = <<>>
    /\ DocumentIdle
    /\ RetsIdle

\* entry(key).or_default(): a vacant key gets an empty bucket.
or_default(m, key) ==
    IF key \in DOMAIN m THEN m ELSE [k \in DOMAIN m \cup {key} |->
                                        IF k = key THEN <<>> ELSE m[k]]

\* grouped.entry(key).or_default().push(content), which borrows the map
\* mutably: no iterator over it is alive any more.
EntryPush(key, content) ==
    /\ Stored(map, DOMAIN map) < MaxGrouped
    /\ map' = [or_default(map, key) EXCEPT ![key] = Append(@, content)]
    /\ iterated' = None
    /\ UNCHANGED <<kind, inputVars, retVars>>

\* grouped.iter().collect(), the HashMap yielding its keys in some order.
Iter ==
    /\ \E order \in KeyOrders(DOMAIN map) :
          iterated' = Some(iter(kind, map, order))
    /\ UNCHANGED <<kind, map, inputVars, retVars>>

Next ==
    \/ \E key \in GroupKeys, content \in GroupedPool : EntryPush(key, content)
    \/ Iter

Spec == Init /\ [][Next]_vars

\* The pairs iter returned.
Pairs == Unwrap(iterated)

\* C6: iter yields one pair for every key of the map and no other, and the
\* pairs are in the order of the kind: for Tag the sizes of the buckets do not
\* grow, for Archive the keys go strictly down, for Author and Stream the keys
\* go strictly up.
IterOrder ==
    iterated # None =>
        /\ Len(Pairs) = Cardinality(DOMAIN map)
        /\ {Pairs[i][1] : i \in 1..Len(Pairs)} = DOMAIN map
        /\ \A i \in 1..Len(Pairs) : Len(Pairs[i][2]) = Len(map[Pairs[i][1]])
        /\ \A i \in 1..(Len(Pairs) - 1) :
              CASE kind = "Tag" -> Len(Pairs[i][2]) >= Len(Pairs[i + 1][2])
                [] kind = "Archive" -> StringLess(Pairs[i + 1][1], Pairs[i][1])
                [] OTHER -> StringLess(Pairs[i][1], Pairs[i + 1][1])

\* An Archive map of three keys was iterated from the latest key down.
IterOrderWitness ==
    /\ kind = "Archive"
    /\ iterated # None
    /\ Len(Pairs) = 3
    /\ Pairs[1][1] = "rust" /\ Pairs[2][1] = "2024" /\ Pairs[3][1] = "2023"

\* sorted is the bucket stably sorted by date, the latest first: there is a
\* one-to-one placing of the stored records that leaves the dates not
\* growing, the records without a date last, and records of one date (or of
\* none) in their stored order.
IsStableDateSort(bucket, sorted) ==
    /\ Len(sorted) = Len(bucket)
    /\ \E place \in KeyOrders(1..Len(bucket)) :
          /\ \A i \in 1..Len(bucket) : sorted[i] = bucket[place[i]]
          /\ \A i, j \in 1..Len(bucket) :
                (i < j /\ sorted[i].date = sorted[j].date) => place[i] < place[j]
    /\ \A i, j \in 1..Len(sorted) :
          i < j => /\ ~DateLess(sorted[i].date, sorted[j].date)
                   /\ sorted[i].date = None => sorted[j].date = None

\* C7, the state part: every bucket iter yields is the stored bucket stably
\* sorted by date, the latest first and the records without a date last.
IterSortsBuckets ==
    iterated # None =>
        \A i \in 1..Len(Pairs) :
            /\ Pairs[i][1] \in DOMAIN map
            /\ IsStableDateSort(map[Pairs[i][1]], Pairs[i][2])

\* C7: for every kind and key the contents iter yields are the stored bucket
\* stably sorted by date descending (a permutation, dates not growing, absent
\* dates last, equal dates in stored order), and the call leaves the stored
\* buckets as they were.
IterSortsBucketsOnly ==
    /\ []IterSortsBuckets
    /\ [][iterated' # None => map' = map]_vars

\* A bucket stored as N, A, B, with A and B of one date, was yielded as
\* A, B, N and is still stored as it was.
IterSortsBucketsOnlyWitness ==
    /\ iterated # None
    /\ "2024" \in DOMAIN map
    /\ Len(map["2024"]) = 3
    /\ map["2024"][1].title = "N" /\ map["2024"][2].title = "A"
    /\ map["2024"][3].title = "B"
    /\ Pairs[1][1] = "2024"
    /\ Pairs[1][2][1].title = "A" /\ Pairs[1][2][2].title = "B"
    /\ Pairs[1][2][3].title = "N"
====
